---- MODULE Spec2Model ----
(***************************************************************************)
(* Model of AudioWatermarker (demo.py): the sign path                       *)
(* segment_and_sign_audio and the verify path verify_audio_segments.        *)
(*                                                                         *)
(* One sign call runs to its end (a return or a raised exception); one      *)
(* verify call then runs on inputs derived from what the sign call          *)
(* returned: the returned waveform or a tampered / truncated copy, the      *)
(* returned signatures or a sequence of another length or order, any        *)
(* sample rate, any segment duration, either watermarker.                   *)
(*                                                                         *)
(* Library calls are modelled by what they compute:                         *)
(*  - librosa.feature.melspectrogram(...).tobytes(): a power spectrogram,   *)
(*    the squared magnitude of a linear transform of the segment.  The      *)
(*    power spectrum of a frame carries the same information as the frame's *)
(*    autocorrelation (its inverse transform), which is what the model      *)
(*    computes over integer samples; the phase is lost.                     *)
(*  - RSA-PSS: a signature is the triple (signing key, signed bytes, salt); *)
(*    verification succeeds exactly for the matching public key and the     *)
(*    same bytes (no forgery, no hash collision).                           *)
(***************************************************************************)
EXTENDS Integers, Sequences, FiniteSets

\* ---------------------------------------------------------------- bounds
MaxLen == 3

\* amplitudes of a sample
Samples == {-1, 1}

\* sample rates a caller may pass (invalid ones included)
SampleRates == {-1, 0, 1, 2}

\* segment_duration as a fraction of a second: 0.5 and 1.0 (the default)
Durations == {[num |-> 1, den |-> 2], [num |-> 1, den |-> 1]}

\* two AudioWatermarker instances, each with its own key pair
Watermarkers == {"A", "B"}

RECURSIVE SeqsUpTo(_)
SeqsUpTo(n) ==
    IF n = 0 THEN {<<>>}
    ELSE LET shorter == SeqsUpTo(n - 1)
         IN  shorter \cup {Append(s, x) : s \in {t \in shorter : Len(t) = n - 1}, x \in Samples}

Waveforms == SeqsUpTo(MaxLen)

\* ------------------------------------------------------- pure functions

\* Python int(): truncation toward zero of num / den (den > 0)
PyInt(num, den) ==
    IF num >= 0 THEN num \div den ELSE -((-num) \div den)

\* segment_length = int(segment_duration * sr)
SegmentLength(dur, sr) == PyInt(dur.num * sr, dur.den)

\* variant: a range that stops before a shorter last step
InRangeWholeStepsOnly(start, stop, step) ==
    IF step > 0 THEN start + step <= stop ELSE start > stop

\* whether `start` is produced by range(0, stop, step), step # 0, start a multiple of step
InRange(start, stop, step) ==
    IF step > 0 THEN start < stop ELSE start > stop

\* the Python slice data[start : start + n] (0-based start, end clamped to len(data))
Min(a, b) == IF a <= b THEN a ELSE b
\* variant: a slice one sample too long
SliceOneMore(data, start, n) ==
    LET stop == Min(start + n + 1, Len(data))
    IN  IF stop <= start THEN <<>>
        ELSE [j \in 1..(stop - start) |-> data[start + j]]

Slice(data, start, n) ==
    LET stop == Min(start + n, Len(data))
    IN  IF stop <= start THEN <<>>
        ELSE [j \in 1..(stop - start) |-> data[start + j]]

\* np.concatenate of a non-empty list of segments
RECURSIVE Concatenate(_)
Concatenate(segs) ==
    IF segs = <<>> THEN <<>> ELSE Head(segs) \o Concatenate(Tail(segs))

RECURSIVE SumTo(_, _)
SumTo(f, n) == IF n = 0 THEN 0 ELSE f[n] + SumTo(f, n - 1)

\* autocorrelation of the segment at lag k
AutoCorr(seg, k) ==
    LET n == Len(seg) - k
    IN  IF n <= 0 THEN 0
        ELSE SumTo([j \in 1..n |-> seg[j] * seg[j + k]], n)

\* melspectrogram(y=segment, sr=sr).tobytes(): the power spectrogram of the
\* segment under the mel filter bank of sample rate sr
MelBytes(segment, sr) ==
    [sr |-> sr, power |-> [k \in 0..(Len(segment) - 1) |-> AutoCorr(segment, k)]]

\* private_key.sign(segment_bytes, PSS, SHA256) with a fresh salt
PrivateKeySign(key, segment_bytes, salt) ==
    [key |-> key, msg |-> segment_bytes, salt |-> salt]

\* variant: a verification that accepts any key pair's signature
PublicKeyVerifyAnyKey(key, signature, segment_bytes) ==
    signature.msg = segment_bytes

\* variant: a verification that does not look at the bytes
PublicKeyVerifyAnyBytes(key, signature, segment_bytes) ==
    signature.key = key

\* public_key.verify(signature, segment_bytes, PSS, SHA256): TRUE when it
\* returns, FALSE when it raises InvalidSignature
PublicKeyVerify(key, signature, segment_bytes) ==
    /\ signature.key = key
    /\ signature.msg = segment_bytes

\* variant: a verify loop without the except clause
TryVerifyUncaught(key, signatures, i, segment_bytes) ==
    LET indexed == i + 1 <= Len(signatures)
        ok == indexed /\ PublicKeyVerify(key, signatures[i + 1], segment_bytes)
    IN  [result |-> ok, raised |-> ~ok, attempted |-> indexed]

\* the try / except of the verify loop: segment_signatures[i] raises IndexError
\* past the end, verify raises on a mismatch; except Exception catches both.
\* i is the 0-based loop index.
TryVerify(key, signatures, i, segment_bytes) ==
    LET indexed == i + 1 <= Len(signatures)
        ok == indexed /\ PublicKeyVerify(key, signatures[i + 1], segment_bytes)
    IN  [result |-> ok, raised |-> FALSE, attempted |-> indexed]

\* ---------------------------------------------------------------- state
VARIABLES
    s_pc,               \* sign call: "idle", "loop", "done"
    audio_data,         \* sign call argument
    s_sr,               \* sign call argument sr
    s_dur,              \* sign call argument segment_duration
    s_self,             \* the watermarker the sign call runs on
    s_start,            \* loop variable start
    signed_segments,
    segment_signatures,
    signed_waveform,    \* returned waveform
    s_outcome,          \* "none", "returned", "raised"
    sign_ops,           \* private_key.sign calls made so far (also the salt source)
    v_pc,               \* verify call: "idle", "loop", "done"
    v_waveform,         \* verify call argument signed_waveform
    v_sr,
    v_dur,
    v_signatures,       \* verify call argument segment_signatures
    v_self,             \* the watermarker the verify call runs on
    v_i,                \* loop index i
    v_start,            \* loop variable start
    v_segments,         \* the segments the loop has sliced, in order
    verification_results,
    v_outcome,          \* "none", "returned", "raised"
    verify_ops          \* public_key.verify calls made so far

s_vars == <<s_pc, audio_data, s_sr, s_dur, s_self, s_start, signed_segments,
            segment_signatures, signed_waveform, s_outcome, sign_ops>>
v_vars == <<v_pc, v_waveform, v_sr, v_dur, v_signatures, v_self, v_i, v_start,
            v_segments, verification_results, v_outcome, verify_ops>>
vars == <<s_vars, v_vars>>

Init ==
    /\ s_pc = "idle"
    /\ audio_data = <<>>
    /\ s_sr = 1
    /\ s_dur = [num |-> 1, den |-> 1]
    /\ s_self = "A"
    /\ s_start = 0
    /\ signed_segments = <<>>
    /\ segment_signatures = <<>>
    /\ signed_waveform = <<>>
    /\ s_outcome = "none"
    /\ sign_ops = 0
    /\ v_pc = "idle"
    /\ v_waveform = <<>>
    /\ v_sr = 1
    /\ v_dur = [num |-> 1, den |-> 1]
    /\ v_signatures = <<>>
    /\ v_self = "A"
    /\ v_i = 0
    /\ v_start = 0
    /\ v_segments = <<>>
    /\ verification_results = <<>>
    /\ v_outcome = "none"
    /\ verify_ops = 0

\* ------------------------------------------------------------ sign path

\* entry of segment_and_sign_audio up to the evaluation of range(): a zero
\* step raises ValueError
SignCall(w, data, sr, dur) ==
    /\ s_pc = "idle"
    /\ audio_data' = data
    /\ s_sr' = sr
    /\ s_dur' = dur
    /\ s_self' = w
    /\ s_start' = 0
    /\ IF SegmentLength(dur, sr) = 0
       THEN s_pc' = "done" /\ s_outcome' = "raised"
       ELSE s_pc' = "loop" /\ s_outcome' = "none"
    /\ UNCHANGED <<signed_segments, segment_signatures, signed_waveform, sign_ops>>
    /\ UNCHANGED v_vars

\* one iteration of the sign loop
SignStep ==
    /\ s_pc = "loop"
    /\ InRange(s_start, Len(audio_data), SegmentLength(s_dur, s_sr))
    /\ LET segment_length == SegmentLength(s_dur, s_sr)
           segment == Slice(audio_data, s_start, segment_length)
           segment_bytes == MelBytes(segment, s_sr)
           signature == PrivateKeySign(s_self, segment_bytes, sign_ops)
       IN  /\ segment_signatures' = Append(segment_signatures, signature)
           /\ signed_segments' = Append(signed_segments, segment)
           /\ s_start' = s_start + segment_length
    /\ sign_ops' = sign_ops + 1
    /\ UNCHANGED <<s_pc, audio_data, s_sr, s_dur, s_self, signed_waveform, s_outcome>>
    /\ UNCHANGED v_vars

\* loop exit: np.concatenate raises ValueError on an empty list
SignFinish ==
    /\ s_pc = "loop"
    /\ ~InRange(s_start, Len(audio_data), SegmentLength(s_dur, s_sr))
    /\ s_pc' = "done"
    /\ IF signed_segments = <<>>
       THEN s_outcome' = "raised" /\ UNCHANGED signed_waveform
       ELSE s_outcome' = "returned" /\ signed_waveform' = Concatenate(signed_segments)
    /\ UNCHANGED <<audio_data, s_sr, s_dur, s_self, s_start, signed_segments,
                   segment_signatures, sign_ops>>
    /\ UNCHANGED v_vars

\* ---------------------------------------------------------- verify path

\* waveforms a caller may hand to the verify call: the one returned, one with a
\* single sample changed, one with the last sample cut off
Tampered(wave) ==
    {[wave EXCEPT ![p] = x] : p \in DOMAIN wave, x \in Samples}
WaveformInputs(wave) ==
    {wave} \cup Tampered(wave) \cup {SubSeq(wave, 1, Len(wave) - 1)}

\* signature sequences a caller may hand to the verify call: the one returned,
\* one short of its last, one with an extra signature, one with the first and
\* last exchanged
SignatureInputs(sigs) ==
    IF sigs = <<>> THEN {sigs}
    ELSE {sigs, SubSeq(sigs, 1, Len(sigs) - 1), Append(sigs, sigs[1]),
          [sigs EXCEPT ![1] = sigs[Len(sigs)], ![Len(sigs)] = sigs[1]]}

\* entry of verify_audio_segments up to the evaluation of range()
VerifyCall(w, wave, sr, sigs, dur) ==
    /\ s_pc = "done"
    /\ s_outcome = "returned"
    /\ v_pc = "idle"
    /\ v_waveform' = wave
    /\ v_sr' = sr
    /\ v_dur' = dur
    /\ v_signatures' = sigs
    /\ v_self' = w
    /\ v_i' = 0
    /\ v_start' = 0
    /\ IF SegmentLength(dur, sr) = 0
       THEN v_pc' = "done" /\ v_outcome' = "raised"
       ELSE v_pc' = "loop" /\ v_outcome' = "none"
    /\ UNCHANGED <<v_segments, verification_results, verify_ops>>
    /\ UNCHANGED s_vars

\* one iteration of the verify loop
VerifyStep ==
    /\ v_pc = "loop"
    /\ InRange(v_start, Len(v_waveform), SegmentLength(v_dur, v_sr))
    /\ LET segment_length == SegmentLength(v_dur, v_sr)
           segment == Slice(v_waveform, v_start, segment_length)
           segment_bytes == MelBytes(segment, v_sr)
           try == TryVerify(v_self, v_signatures, v_i, segment_bytes)
       IN  /\ v_segments' = Append(v_segments, segment)
           /\ verify_ops' = IF try.attempted THEN verify_ops + 1 ELSE verify_ops
           /\ IF try.raised
              THEN /\ v_pc' = "done"
                   /\ v_outcome' = "raised"
                   /\ UNCHANGED <<verification_results, v_i, v_start>>
              ELSE /\ verification_results' = Append(verification_results, try.result)
                   /\ v_i' = v_i + 1
                   /\ v_start' = v_start + segment_length
                   /\ UNCHANGED <<v_pc, v_outcome>>
    /\ UNCHANGED <<v_waveform, v_sr, v_dur, v_signatures, v_self>>
    /\ UNCHANGED s_vars

\* loop exit: return verification_results
VerifyFinish ==
    /\ v_pc = "loop"
    /\ ~InRange(v_start, Len(v_waveform), SegmentLength(v_dur, v_sr))
    /\ v_pc' = "done"
    /\ v_outcome' = "returned"
    /\ UNCHANGED <<v_waveform, v_sr, v_dur, v_signatures, v_self, v_i, v_start,
                   v_segments, verification_results, verify_ops>>
    /\ UNCHANGED s_vars

Next ==
    \/ \E w \in Watermarkers, data \in Waveforms, sr \in SampleRates, dur \in Durations :
          SignCall(w, data, sr, dur)
    \/ SignStep
    \/ SignFinish
    \/ \E w \in Watermarkers, wave \in WaveformInputs(signed_waveform),
          sr \in SampleRates, sigs \in SignatureInputs(segment_signatures),
          dur \in Durations :
          VerifyCall(w, wave, sr, sigs, dur)
    \/ VerifyStep
    \/ VerifyFinish

Spec == Init /\ [][Next]_vars

\* ------------------------------------------------------------ properties

Ceil(a, b) == (a + b - 1) \div b

\* segment lengths of the two calls
SLen == SegmentLength(s_dur, s_sr)
VLen == SegmentLength(v_dur, v_sr)

\* samples [k*n, min((k+1)*n, len)) of data, k counted from 0
Chunk(data, k, n) ==
    [j \in 1..((IF (k + 1) * n <= Len(data) THEN (k + 1) * n ELSE Len(data)) - k * n)
        |-> data[k * n + j]]

\* the verify call has ended and was given this waveform, these signatures,
\* and the sample rate and segment duration of the sign call
VerifiedWith(wave, sigs) ==
    /\ v_pc = "done"
    /\ v_waveform = wave
    /\ v_signatures = sigs
    /\ v_sr = s_sr
    /\ v_dur = s_dur

\* signatures[j] (j counted from 1) exists and is a signature made with the
\* verifier's key pair over the feature bytes of segment j of the verify
\* call's waveform
ValidAt(j) ==
    /\ j <= Len(v_signatures)
    /\ v_signatures[j].key = v_self
    /\ v_signatures[j].msg = MelBytes(Chunk(v_waveform, j - 1, VLen), v_sr)

AllTrue(results) == \A i \in DOMAIN results : results[i] = TRUE
AllFalse(results) == \A i \in DOMAIN results : results[i] = FALSE

\* C1: for every waveform (valid sample rate, segment length >= 1), the sign
\* call returns, and verifying what it returned with the same watermarker,
\* sample rate and duration returns one TRUE per chunk of the waveform.
C1_RoundTrip ==
    (s_pc = "done" /\ s_sr > 0 /\ SLen >= 1) =>
        /\ s_outcome = "returned"
        /\ (VerifiedWith(signed_waveform, segment_signatures) /\ v_self = s_self) =>
              /\ v_outcome = "returned"
              /\ Len(verification_results) = Ceil(Len(audio_data), SLen)
              /\ AllTrue(verification_results)

\* C2: for every waveform, the empty one included, the sign call returns a
\* waveform equal to its input, sample for sample.
C2_Reconstruction ==
    (s_pc = "done" /\ s_sr > 0 /\ SLen >= 1) =>
        /\ s_outcome = "returned"
        /\ signed_waveform = audio_data

\* C3: for a non-empty waveform, the sign call returns ceil(len / segment
\* length) signatures, and the verify call on its output returns as many results.
C3_SegmentCount ==
    /\ (s_pc = "done" /\ s_outcome = "returned" /\ audio_data # <<>>) =>
          Len(segment_signatures) = Ceil(Len(audio_data), SLen)
    /\ (VerifiedWith(signed_waveform, segment_signatures) /\ audio_data # <<>>) =>
          /\ v_outcome = "returned"
          /\ Len(verification_results) = Len(segment_signatures)
          /\ Len(verification_results) = Ceil(Len(audio_data), SLen)

C3_Witness ==
    /\ VerifiedWith(signed_waveform, segment_signatures)
    /\ Len(audio_data) = 3
    /\ SLen = 2
    /\ Len(segment_signatures) = 2
    /\ Len(verification_results) = 2

\* the positions at which the verify call's waveform differs from the one signed
ChangedAt ==
    {p \in DOMAIN signed_waveform : v_waveform[p] # signed_waveform[p]}

\* the verify call ran on the signed waveform with exactly one sample changed,
\* everything else as the sign call had it
SingleSampleChanged ==
    /\ v_pc = "done"
    /\ v_signatures = segment_signatures
    /\ v_sr = s_sr
    /\ v_dur = s_dur
    /\ v_self = s_self
    /\ Len(v_waveform) = Len(signed_waveform)
    /\ Cardinality(ChangedAt) = 1

\* the segment (counted from 1) that holds the changed sample
ChangedSegment == (((CHOOSE p \in ChangedAt : TRUE) - 1) \div SLen) + 1

OthersTrue(i) ==
    \A j \in DOMAIN verification_results : j # i => verification_results[j] = TRUE

\* C4 as stated: changing any single sample of segment i makes result[i] FALSE
\* and leaves every other result TRUE.
C4_TamperAlwaysDetected ==
    SingleSampleChanged =>
        /\ ChangedSegment \in DOMAIN verification_results
        /\ verification_results[ChangedSegment] = FALSE
        /\ OthersTrue(ChangedSegment)

\* C4 amended: changing a single sample of segment i makes result[i] FALSE
\* exactly when the change alters the segment's feature bytes (a change that
\* leaves the power spectrogram as it was, such as negating the only sample of
\* a segment, leaves result[i] TRUE); every other result stays TRUE.
C4_TamperDetectedByFeatures ==
    SingleSampleChanged =>
        /\ ChangedSegment \in DOMAIN verification_results
        /\ verification_results[ChangedSegment] = FALSE <=>
              MelBytes(Chunk(v_waveform, ChangedSegment - 1, SLen), s_sr)
                 # MelBytes(Chunk(signed_waveform, ChangedSegment - 1, SLen), s_sr)
        /\ OthersTrue(ChangedSegment)

C4_Witness ==
    /\ SingleSampleChanged
    /\ ChangedSegment = 1
    /\ verification_results = <<FALSE, TRUE>>

\* C5: signatures made by one watermarker, verified by the other on the same
\* waveform, sample rate and duration: one result per signature, all FALSE.
C5_KeyMismatch ==
    (VerifiedWith(signed_waveform, segment_signatures) /\ v_self # s_self) =>
        /\ v_outcome = "returned"
        /\ Len(verification_results) = Len(segment_signatures)
        /\ AllFalse(verification_results)

C5_Witness ==
    /\ VerifiedWith(signed_waveform, segment_signatures)
    /\ v_self # s_self
    /\ verification_results = <<FALSE, FALSE, FALSE>>

\* C6: a verify call given a number of signatures other than the number of
\* chunks of its waveform raises before any signature is verified and returns
\* no results.
C6_CountMismatchFatal ==
    (v_pc # "idle" /\ VLen >= 1 /\ Len(v_signatures) # Ceil(Len(v_waveform), VLen)) =>
        /\ verify_ops = 0
        /\ v_pc = "done" => v_outcome = "raised"

\* C7: with a sample rate <= 0 both calls raise before any signing or
\* verification; neither returns.
C7_InvalidSampleRateFatal ==
    /\ (s_pc # "idle" /\ s_sr <= 0) =>
          /\ sign_ops = 0
          /\ s_pc = "done" => s_outcome = "raised"
    /\ (v_pc # "idle" /\ v_sr <= 0) =>
          /\ verify_ops = 0
          /\ v_pc = "done" => v_outcome = "raised"

\* C8: a signature that does not match its segment is reported as FALSE at its
\* index and the verify call does not raise: every later segment is still
\* processed and gets the result its own signature and samples decide.
C8_MismatchIsAValue ==
    /\ (v_pc = "done" /\ v_outcome = "raised") => VLen = 0
    /\ (v_pc = "done" /\ VLen >= 1) =>
          LET n == Ceil(Len(v_waveform), VLen)
          IN  \A i \in 1..n :
                 ~ValidAt(i) =>
                    /\ Len(verification_results) = n
                    /\ verification_results[i] = FALSE
                    /\ \A j \in (i + 1)..n : verification_results[j] = ValidAt(j)

C8_Witness ==
    /\ v_pc = "done"
    /\ v_outcome = "returned"
    /\ ~ValidAt(1)
    /\ ValidAt(2)
    /\ verification_results = <<FALSE, TRUE>>

\* the segments a loop has produced are the chunks of data in order: segment k
\* covers [k*n, min((k+1)*n, len)), each but the last has n samples, the last
\* has between 1 and n
OrderedPartition(segments, data, n, finished) ==
    /\ \A k \in DOMAIN segments :
          /\ segments[k] = Chunk(data, k - 1, n)
          /\ Len(segments[k]) >= 1
          /\ Len(segments[k]) <= n
          /\ k < Ceil(Len(data), n) => Len(segments[k]) = n
    /\ Len(segments) <= Ceil(Len(data), n)
    /\ finished =>
          /\ Len(segments) = Ceil(Len(data), n)
          /\ Concatenate(segments) = data

\* C9: with segment length >= 1 both loops cut the waveform into its chunks,
\* left to right, without overlap, gap or empty segment, ceil(len / segment
\* length) of them.
C9_OrderedPartition ==
    /\ (s_pc # "idle" /\ SLen >= 1) =>
          OrderedPartition(signed_segments, audio_data, SLen, s_pc = "done")
    /\ (v_pc # "idle" /\ VLen >= 1) =>
          OrderedPartition(v_segments, v_waveform, VLen, v_pc = "done")

C9_Witness ==
    /\ s_pc = "done"
    /\ Len(audio_data) = 3
    /\ SLen = 2
    /\ Len(signed_segments) = 2
    /\ Len(signed_segments[2]) = 1
    /\ v_pc = "done"
    /\ Len(v_waveform) = 3
    /\ VLen = 1
    /\ Len(v_segments) = 3

\* C10: result[i] is TRUE exactly when signatures[i] is valid under the
\* verifier's key over the feature bytes of segment i; and given the
\* signatures of a sign call the verify call returns one result per signature.
C10_PositionalOnePerSignature ==
    (v_pc = "done" /\ v_outcome = "returned" /\ VLen >= 1) =>
        /\ \A i \in DOMAIN verification_results : verification_results[i] = ValidAt(i)
        /\ v_signatures = segment_signatures =>
              Len(verification_results) = Len(v_signatures)

====
